---- MODULE Spec2Model ----
(***************************************************************************)
(* A model of docs/docs/how_to/qa_streaming.ipynb: the notebook's code     *)
(* cells run top to bottom, each streaming loop pulling one chunk or event *)
(* per iteration from the chain it calls.  Text is a sequence of           *)
(* one-character strings; what a cell prints is the sequence of the texts  *)
(* its print calls wrote.                                                  *)
(***************************************************************************)
EXTENDS Integers, Sequences, FiniteSets, TLC

VARIABLES pc, exc, env, envLog, ns, run, stdout, calls

vars == <<pc, exc, env, envLog, ns, run, stdout, calls>>

----------------------------------------------------------------------------
(* Bounds *)

MaxAnswerChunks == 2

MaxQueryChunks == 2

----------------------------------------------------------------------------
(* Text helpers *)

RECURSIVE Concat(_)
Concat(ss) == IF ss = <<>> THEN <<>> ELSE Head(ss) \o Concat(Tail(ss))

IsPrefix(s, t) == Len(s) <= Len(t) /\ SubSeq(t, 1, Len(s)) = s

Contains(list, x) == \E i \in 1..Len(list) : list[i] = x

----------------------------------------------------------------------------
(* Values the external services may return *)

Fragments == {<<>>, <<"a">>}

AnswerPlans == UNION {[1..n -> Fragments] : n \in 1..MaxAnswerChunks}

QueryPlans == UNION {[1..n -> Fragments] : n \in 1..MaxQueryChunks}

Contexts == {<<"d1", "d2">>, <<"d2", "d1">>}

Secrets == {"sk-1"}

----------------------------------------------------------------------------
(* Literals of the notebook *)

question == <<"q">>

first_question == <<"b">>

first_answer == <<"b", "c">>

follow_up_question == <<"a">>

chat_history == <<[role |-> "human", content |-> first_question],
                  [role |-> "ai", content |-> first_answer]>>

conv_input_first == [input |-> first_question, chat_history |-> chat_history]

conv_input == [input |-> follow_up_question, chat_history |-> chat_history]

plain_input_with_history == [input |-> question, chat_history |-> chat_history]

plain_input == [input |-> question]

----------------------------------------------------------------------------
(* The process environment *)

EnvVars == {"OPENAI_API_KEY", "LANGCHAIN_TRACING_V2", "LANGCHAIN_API_KEY", "PATH"}

InitEnv == [v \in EnvVars |-> IF v = "PATH" THEN "/usr/bin" ELSE "unset"]

SetEnvOther(e, log, var, val) ==
    [env |-> [e EXCEPT !["PATH"] = val],
     log |-> Append(log, [op |-> "write", var |-> "PATH"])]

SetEnv(e, log, var, val) ==
    [env |-> [e EXCEPT ![var] = val], log |-> Append(log, [op |-> "write", var |-> var])]

----------------------------------------------------------------------------
(* The statements of the code cells, in notebook order *)

Steps == <<"set_openai_key", "set_tracing", "set_langsmith_key", "select_llm",
           "create_loader", "load", "create_splitter", "split", "index", "as_retriever",
           "system_prompt", "prompt", "create_qa_chain", "create_chain",
           "print_loop", "filter_loop", "pick", "pick_loop",
           "contextualize_q_system_prompt", "contextualize_q_prompt", "with_config",
           "create_history_aware_retriever", "conv_system_prompt", "qa_prompt",
           "create_conv_qa_chain", "create_conv_chain",
           "first_question", "first_answer", "follow_up_question", "chat_history",
           "tag_loop", "name_loop", "done">>

StepIndex(s) == CHOOSE i \in 1..Len(Steps) : Steps[i] = s

NextStep(s) == Steps[StepIndex(s) + 1]

StreamLoops == {"print_loop", "filter_loop", "pick_loop"}

EventLoops == {"tag_loop", "name_loop"}

Loops == StreamLoops \cup EventLoops

UnwindSwallowed(s) == IF s \in Loops THEN s ELSE NextStep(s)

Unwind(s) == "failed"

----------------------------------------------------------------------------
(* Objects the cells bind to names *)

Undefined == [kind |-> "undefined"]

Names == {"llm", "loader", "docs", "text_splitter", "splits", "vectorstore", "retriever",
          "system_prompt", "prompt", "question_answer_chain", "rag_chain",
          "chunk", "answer_chunk", "chain",
          "contextualize_q_system_prompt", "contextualize_q_prompt",
          "contextualize_q_llm", "history_aware_retriever", "qa_prompt",
          "first_question", "first_answer", "follow_up_question", "chat_history",
          "event", "ai_message_chunk"}

LoopNames == {"chunk", "answer_chunk", "event", "ai_message_chunk"}

None == [kind |-> "None"]

Str(v) == [kind |-> "str", val |-> v]

Dict(d) == [kind |-> "dict", items |-> d]

List(l) == [kind |-> "list", elems |-> l]

ChatPromptTemplate(messages) == [kind |-> "prompt", messages |-> messages]

ChatOpenAI == [kind |-> "chat_model", name |-> "ChatOpenAI", tags |-> <<>>]

with_config(model, tags) == [model EXCEPT !.tags = @ \o tags]

as_retriever(store) ==
    [kind |-> "retriever", name |-> "Retriever",
     tags |-> <<"Chroma", "OpenAIEmbeddings">>]

create_stuff_documents_chain(model, prompt) ==
    [kind |-> "stuff_documents_chain", llm |-> model, prompt |-> prompt]

create_history_aware_retriever(model, retr, prompt) ==
    [kind |-> "history_aware_retriever", llm |-> model, retriever |-> retr,
     prompt |-> prompt]

create_retrieval_chain(retr, qa) ==
    [kind |-> "retrieval_chain", retriever |-> retr, qa |-> qa]

pick(chain, key) == [kind |-> "pick", of |-> chain, key |-> key]

----------------------------------------------------------------------------
(* What the chains deliver: chunks of .stream *)

AnswerChunkDup(f) == <<[answer |-> f], [answer |-> f]>>

AnswerChunk(f) == <<[answer |-> f]>>

RECURSIVE AnswerChunks(_)
AnswerChunks(frags) ==
    IF frags = <<>> THEN <<>>
    ELSE AnswerChunk(Head(frags)) \o AnswerChunks(Tail(frags))

RetrievalStream(input, docs, answer) ==
    <<input>> \o <<[context |-> docs]>> \o AnswerChunks(answer)

PickItem(chunk, key) ==
    IF key \in DOMAIN chunk THEN <<chunk[key]>> ELSE <<>>

RECURSIVE PickStream(_, _)
PickStream(chunks, key) ==
    IF chunks = <<>> THEN <<>>
    ELSE PickItem(Head(chunks), key) \o PickStream(Tail(chunks), key)

Stream(chain, input, docs, answer) ==
    IF chain.kind = "pick"
    THEN PickStream(RetrievalStream(input, docs, answer), chain.key)
    ELSE RetrievalStream(input, docs, answer)

----------------------------------------------------------------------------
(* What the chains deliver: events of .astream_events *)

Event(type, name, id, tags, data) ==
    [event |-> type, name |-> name, run_id |-> id, tags |-> tags, metadata |-> <<>>,
     data |-> data]

ModelEvents(model, id, step, frags) ==
    LET tags == <<step>> \o model.tags IN
    <<Event("on_chat_model_start", model.name, id, tags, [input |-> [messages |-> "messages"]])>>
    \o [i \in 1..Len(frags) |->
          Event("on_chat_model_stream", model.name, id, tags,
                [chunk |-> [content |-> frags[i]]])]
    \o <<Event("on_chat_model_end", model.name, id, tags,
                [output |-> [content |-> Concat(frags)]])>>

RECURSIVE AnswerEvents(_, _, _)
AnswerEvents(model, id, frags) ==
    IF frags = <<>> THEN <<>>
    ELSE <<Event("on_chat_model_stream", model.name, id,
                 <<"seq:step:2">> \o model.tags,
                 [chunk |-> [content |-> Head(frags)]])>>
         \o [i \in 1..Len(AnswerChunk(Head(frags))) |->
               Event("on_chain_stream", "retrieval_chain", "run_root", <<>>,
                     [chunk |-> AnswerChunk(Head(frags))[i]])]
         \o AnswerEvents(model, id, Tail(frags))

RetrieverEvents(retr, query, docs) ==
    <<Event("on_retriever_start", retr.name, "run_ret", <<"seq:step:4">> \o retr.tags,
            [input |-> [query |-> query]]),
      Event("on_retriever_end", retr.name, "run_ret", <<"seq:step:4">> \o retr.tags,
            [input |-> [query |-> query], output |-> [documents |-> docs]])>>

RetrieverQuery(input, rephrase) == Concat(rephrase)

FinalOutput(input, docs, answer) ==
    input @@ [context |-> docs, answer |-> Concat(answer)]

RetrievalPhaseRetrieveFirst(hist, input, rephrase, docs) ==
    RetrieverEvents(hist.retriever, RetrieverQuery(input, rephrase), docs)
    \o ModelEvents(hist.llm, "run_q", "seq:step:2", rephrase)

RetrievalPhase(hist, input, rephrase, docs) ==
    ModelEvents(hist.llm, "run_q", "seq:step:2", rephrase)
    \o RetrieverEvents(hist.retriever, RetrieverQuery(input, rephrase), docs)

Events(chain, input, rephrase, docs, answer) ==
    <<Event("on_chain_start", "retrieval_chain", "run_root", <<>>, [input |-> input])>>
    \o RetrievalPhase(chain.retriever, input, rephrase, docs)
    \o <<Event("on_chain_stream", "retrieval_chain", "run_root", <<>>, [chunk |-> input]),
          Event("on_chain_stream", "retrieval_chain", "run_root", <<>>,
                [chunk |-> [context |-> docs]]),
          Event("on_chat_model_start", chain.qa.llm.name, "run_a",
                <<"seq:step:2">> \o chain.qa.llm.tags, [input |-> [messages |-> "messages"]])>>
    \o AnswerEvents(chain.qa.llm, "run_a", answer)
    \o <<Event("on_chat_model_end", chain.qa.llm.name, "run_a",
                <<"seq:step:2">> \o chain.qa.llm.tags, [output |-> [content |-> Concat(answer)]]),
          Event("on_chain_end", "retrieval_chain", "run_root", <<>>,
                [output |-> FinalOutput(input, docs, answer)])>>

----------------------------------------------------------------------------
(* Python values as the loop bodies use them *)

Get(chunk, key) ==
    IF key \in DOMAIN chunk THEN [some |-> TRUE, val |-> chunk[key]]
    ELSE [some |-> FALSE, val |-> <<>>]

Truthy(opt) == opt.some /\ opt.val # <<>>

KeyOrder == <<"input", "chat_history", "context", "answer">>

ReprValue(key, val) ==
    IF key \in {"input", "answer"} THEN <<"'">> \o val \o <<"'">>
    ELSE IF key = "context" THEN <<"[">> \o val \o <<"]">>
    ELSE <<"[", "messages", "]">>

RECURSIVE ReprItems(_, _)
ReprItems(chunk, keys) ==
    IF keys = <<>> THEN <<>>
    ELSE (IF Head(keys) \in DOMAIN chunk
          THEN <<Head(keys), ":">> \o ReprValue(Head(keys), chunk[Head(keys)])
          ELSE <<>>)
         \o ReprItems(chunk, Tail(keys))

Repr(chunk) == <<"{">> \o ReprItems(chunk, KeyOrder) \o <<"}">>

ReprEvent(e) ==
    <<"{", "event", ":", e.event, "name", ":", e.name, "run_id", ":", e.run_id,
      "tags", ":", "[">> \o e.tags \o <<"]", "metadata", ":", "{", "}",
      "data", ":", "{", "input", ":", "{", "query", ":", "'">>
    \o e.data.input.query \o <<"'", "}">>
    \o (IF "output" \in DOMAIN e.data
        THEN <<"output", ":", "{", "documents", ":", "[">>
             \o e.data.output.documents \o <<"]", "}">>
        ELSE <<>>)
    \o <<"}", "}">>

----------------------------------------------------------------------------
(* The loop bodies: the texts one iteration writes *)

NoAssigns == [n \in {} |-> None]

PrintBody(chunk) == <<Repr(chunk) \o <<"\n">>>>

KeyFilterBodyHasKey(chunk) ==
    LET answer_chunk == Get(chunk, "answer") IN
    IF answer_chunk.some THEN <<answer_chunk.val \o <<"|">>>> ELSE <<>>

KeyFilterAssignsEvent(chunk) ==
    LET answer_chunk == Get(chunk, "answer") IN
    [n \in {"event"} |-> IF answer_chunk.some THEN Str(answer_chunk.val) ELSE None]

KeyFilterAssigns(chunk) ==
    LET answer_chunk == Get(chunk, "answer") IN
    [n \in {"answer_chunk"} |-> IF answer_chunk.some THEN Str(answer_chunk.val) ELSE None]

KeyFilterBody(chunk) ==
    LET answer_chunk == Get(chunk, "answer") IN
    IF Truthy(answer_chunk) THEN <<answer_chunk.val \o <<"|">>>> ELSE <<>>

PickBodyNoBar(chunk) == <<chunk>>

PickBody(chunk) == <<chunk \o <<"|">>>>

TagFilterBodyAnyModel(event) ==
    IF event.event = "on_chat_model_stream"
    THEN <<event.data.chunk.content \o <<"|">>>>
    ELSE <<>>

AIMessageChunk(c) == [kind |-> "AIMessageChunk", content |-> c.content]

TagFilterAssigns(event) ==
    IF event.event = "on_chat_model_stream"
       /\ Contains(event.tags, "contextualize_q_llm")
    THEN [n \in {"ai_message_chunk"} |-> AIMessageChunk(event.data.chunk)]
    ELSE NoAssigns

TagFilterBody(event) ==
    IF event.event = "on_chat_model_stream"
       /\ Contains(event.tags, "contextualize_q_llm")
    THEN LET ai_message_chunk == event.data.chunk IN
         <<ai_message_chunk.content \o <<"|">>>>
    ELSE <<>>

NameFilterBodyEndOnly(event) ==
    IF event.event = "on_retriever_end" THEN <<ReprEvent(event) \o <<"\n">>, <<"\n">>>>
    ELSE <<>>

NameFilterBody(event) ==
    IF event.name = "Retriever" THEN <<ReprEvent(event) \o <<"\n">>, <<"\n">>>>
    ELSE <<>>

----------------------------------------------------------------------------
(* State *)

NoRun == [cell |-> "none", items |-> <<>>, pos |-> 0, handled |-> <<>>,
          rephrase |-> <<>>, docs |-> <<>>, answer |-> <<>>]

Init ==
    /\ pc = "set_openai_key"
    /\ exc = "none"
    /\ env = InitEnv
    /\ envLog = <<>>
    /\ ns = [n \in Names |-> Undefined]
    /\ run = NoRun
    /\ stdout = <<>>
    /\ calls = [started |-> 0, exhausted |-> 0]

Advance == pc' = NextStep(pc)

Bind(name, obj) == ns' = [ns EXCEPT ![name] = obj]

----------------------------------------------------------------------------
(* Setup cells *)

SetOpenAIKey ==
    /\ pc = "set_openai_key"
    /\ \E s \in Secrets :
         LET r == SetEnv(env, envLog, "OPENAI_API_KEY", s) IN
         env' = r.env /\ envLog' = r.log
    /\ Advance
    /\ UNCHANGED <<exc, ns, run, stdout, calls>>

SetTracing ==
    /\ pc = "set_tracing"
    /\ LET r == SetEnv(env, envLog, "LANGCHAIN_TRACING_V2", "true") IN
       env' = r.env /\ envLog' = r.log
    /\ Advance
    /\ UNCHANGED <<exc, ns, run, stdout, calls>>

SetLangSmithKey ==
    /\ pc = "set_langsmith_key"
    /\ \E s \in Secrets :
         LET r == SetEnv(env, envLog, "LANGCHAIN_API_KEY", s) IN
         env' = r.env /\ envLog' = r.log
    /\ Advance
    /\ UNCHANGED <<exc, ns, run, stdout, calls>>

SelectLLM ==
    /\ pc = "select_llm"
    /\ Bind("llm", ChatOpenAI)
    /\ Advance
    /\ UNCHANGED <<exc, env, envLog, run, stdout, calls>>

CreateLoader ==
    /\ pc = "create_loader"
    /\ Bind("loader", [kind |-> "loader"])
    /\ Advance
    /\ UNCHANGED <<exc, env, envLog, run, stdout, calls>>

Load ==
    /\ pc = "load"
    /\ ns["loader"].kind = "loader"
    /\ Bind("docs", [kind |-> "documents"])
    /\ Advance
    /\ UNCHANGED <<exc, env, envLog, run, stdout, calls>>

CreateSplitter ==
    /\ pc = "create_splitter"
    /\ Bind("text_splitter", [kind |-> "text_splitter"])
    /\ Advance
    /\ UNCHANGED <<exc, env, envLog, run, stdout, calls>>

Split ==
    /\ pc = "split"
    /\ ns["text_splitter"].kind = "text_splitter" /\ ns["docs"].kind = "documents"
    /\ Bind("splits", [kind |-> "documents"])
    /\ Advance
    /\ UNCHANGED <<exc, env, envLog, run, stdout, calls>>

Index ==
    /\ pc = "index"
    /\ ns["splits"].kind = "documents"
    /\ Bind("vectorstore", [kind |-> "vectorstore"])
    /\ Advance
    /\ UNCHANGED <<exc, env, envLog, run, stdout, calls>>

AsRetriever ==
    /\ pc = "as_retriever"
    /\ ns["vectorstore"].kind = "vectorstore"
    /\ Bind("retriever", as_retriever(ns["vectorstore"]))
    /\ Advance
    /\ UNCHANGED <<exc, env, envLog, run, stdout, calls>>

answer_instructions == "answer_instructions"

SystemPrompt ==
    /\ pc = "system_prompt"
    /\ Bind("system_prompt", Str(answer_instructions))
    /\ Advance
    /\ UNCHANGED <<exc, env, envLog, run, stdout, calls>>

Prompt ==
    /\ pc = "prompt"
    /\ Bind("prompt", ChatPromptTemplate(
           <<[role |-> "system", content |-> ns["system_prompt"].val],
             [role |-> "human", content |-> "{input}"]>>))
    /\ Advance
    /\ UNCHANGED <<exc, env, envLog, run, stdout, calls>>

CreateQAChain ==
    /\ pc = "create_qa_chain"
    /\ Bind("question_answer_chain",
            create_stuff_documents_chain(ns["llm"], ns["prompt"]))
    /\ Advance
    /\ UNCHANGED <<exc, env, envLog, run, stdout, calls>>

CreateChain ==
    /\ pc = "create_chain"
    /\ Bind("rag_chain",
            create_retrieval_chain(ns["retriever"], ns["question_answer_chain"]))
    /\ Advance
    /\ UNCHANGED <<exc, env, envLog, run, stdout, calls>>

pick_key_context == "context"

pick_key == "answer"

Pick ==
    /\ pc = "pick"
    /\ Bind("chain", pick(ns["rag_chain"], pick_key))
    /\ Advance
    /\ UNCHANGED <<exc, env, envLog, run, stdout, calls>>

contextualize_instructions == "contextualize_instructions"

ContextualizeQSystemPrompt ==
    /\ pc = "contextualize_q_system_prompt"
    /\ Bind("contextualize_q_system_prompt", Str(contextualize_instructions))
    /\ Advance
    /\ UNCHANGED <<exc, env, envLog, run, stdout, calls>>

ContextualizeQPrompt ==
    /\ pc = "contextualize_q_prompt"
    /\ Bind("contextualize_q_prompt", ChatPromptTemplate(
           <<[role |-> "system", content |-> ns["contextualize_q_system_prompt"].val],
             [role |-> "placeholder", content |-> "chat_history"],
             [role |-> "human", content |-> "{input}"]>>))
    /\ Advance
    /\ UNCHANGED <<exc, env, envLog, run, stdout, calls>>

WithConfig ==
    /\ pc = "with_config"
    /\ Bind("contextualize_q_llm", with_config(ns["llm"], <<"contextualize_q_llm">>))
    /\ Advance
    /\ UNCHANGED <<exc, env, envLog, run, stdout, calls>>

CreateHistoryAwareRetriever ==
    /\ pc = "create_history_aware_retriever"
    /\ Bind("history_aware_retriever",
            create_history_aware_retriever(
                ns["contextualize_q_llm"], ns["retriever"], ns["contextualize_q_prompt"]))
    /\ Advance
    /\ UNCHANGED <<exc, env, envLog, run, stdout, calls>>

ConvSystemPrompt ==
    /\ pc = "conv_system_prompt"
    /\ Bind("system_prompt", Str(answer_instructions))
    /\ Advance
    /\ UNCHANGED <<exc, env, envLog, run, stdout, calls>>

QAPrompt ==
    /\ pc = "qa_prompt"
    /\ Bind("qa_prompt", ChatPromptTemplate(
           <<[role |-> "system", content |-> ns["system_prompt"].val],
             [role |-> "placeholder", content |-> "chat_history"],
             [role |-> "human", content |-> "{input}"]>>))
    /\ Advance
    /\ UNCHANGED <<exc, env, envLog, run, stdout, calls>>

AnswerModelTagged(n) == n["contextualize_q_llm"]

AnswerModel(n) == n["llm"]

CreateConvQAChain ==
    /\ pc = "create_conv_qa_chain"
    /\ Bind("question_answer_chain",
            create_stuff_documents_chain(AnswerModel(ns), ns["qa_prompt"]))
    /\ Advance
    /\ UNCHANGED <<exc, env, envLog, run, stdout, calls>>

CreateConvChain ==
    /\ pc = "create_conv_chain"
    /\ Bind("rag_chain",
            create_retrieval_chain(ns["history_aware_retriever"], ns["question_answer_chain"]))
    /\ Advance
    /\ UNCHANGED <<exc, env, envLog, run, stdout, calls>>

FirstQuestion ==
    /\ pc = "first_question"
    /\ Bind("first_question", Str(first_question))
    /\ Advance
    /\ UNCHANGED <<exc, env, envLog, run, stdout, calls>>

FirstAnswer ==
    /\ pc = "first_answer"
    /\ Bind("first_answer", Str(first_answer))
    /\ Advance
    /\ UNCHANGED <<exc, env, envLog, run, stdout, calls>>

FollowUpQuestion ==
    /\ pc = "follow_up_question"
    /\ Bind("follow_up_question", Str(follow_up_question))
    /\ Advance
    /\ UNCHANGED <<exc, env, envLog, run, stdout, calls>>

ChatHistory ==
    /\ pc = "chat_history"
    /\ Bind("chat_history",
            List(<<[role |-> "human", content |-> ns["first_question"].val],
                   [role |-> "ai", content |-> ns["first_answer"].val]>>))
    /\ Advance
    /\ UNCHANGED <<exc, env, envLog, run, stdout, calls>>

----------------------------------------------------------------------------
(* Streaming cells *)

StreamTarget(cell) == IF cell = "pick_loop" THEN ns["chain"] ELSE ns["rag_chain"]

CallStream ==
    /\ pc \in StreamLoops
    /\ run.cell = "none"
    /\ \E docs \in Contexts, answer \in AnswerPlans :
         run' = [cell |-> pc, pos |-> 0, handled |-> <<>>,
                 items |-> Stream(StreamTarget(pc), plain_input, docs, answer),
                 rephrase |-> <<>>, docs |-> docs, answer |-> answer]
    /\ stdout' = <<>>
    /\ calls' = [calls EXCEPT !.started = @ + 1]
    /\ UNCHANGED <<pc, exc, env, envLog, ns>>

CallEvents ==
    /\ pc \in EventLoops
    /\ run.cell = "none"
    /\ \E rephrase \in QueryPlans, docs \in Contexts, answer \in AnswerPlans :
         run' = [cell |-> pc, pos |-> 0, handled |-> <<>>,
                 items |-> Events(ns["rag_chain"], conv_input, rephrase, docs, answer),
                 rephrase |-> rephrase, docs |-> docs, answer |-> answer]
    /\ stdout' = <<>>
    /\ calls' = [calls EXCEPT !.started = @ + 1]
    /\ UNCHANGED <<pc, exc, env, envLog, ns>>

Current == run.items[run.pos + 1]

Iterate(cell, target, assigns, body) ==
    /\ pc = cell
    /\ run.cell = cell
    /\ run.pos < Len(run.items)
    /\ run' = [run EXCEPT !.pos = @ + 1,
                          !.handled = Append(@, [by |-> pc, item |-> Current])]
    /\ ns' = [n \in Names |->
                IF n \in DOMAIN assigns THEN assigns[n]
                ELSE IF n = target.name THEN target.obj
                ELSE ns[n]]
    /\ stdout' = stdout \o body
    /\ UNCHANGED <<pc, exc, env, envLog, calls>>

PrintIter ==
    Iterate("print_loop", [name |-> "chunk", obj |-> Dict(Current)],
            NoAssigns, PrintBody(Current))

KeyFilterIter ==
    Iterate("filter_loop", [name |-> "chunk", obj |-> Dict(Current)],
            KeyFilterAssigns(Current), KeyFilterBody(Current))

PickIter ==
    Iterate("pick_loop", [name |-> "chunk", obj |-> Str(Current)],
            NoAssigns, PickBody(Current))

TagFilterIter ==
    Iterate("tag_loop", [name |-> "event", obj |-> Dict(Current)],
            TagFilterAssigns(Current), TagFilterBody(Current))

NameFilterIter ==
    Iterate("name_loop", [name |-> "event", obj |-> Dict(Current)],
            NoAssigns, NameFilterBody(Current))

ExhaustedAfterFirst(r) == r.pos >= 1

ExhaustedNever(r) == FALSE

Exhausted(r) == r.pos = Len(r.items)

LoopExit ==
    /\ pc \in Loops
    /\ run.cell = pc
    /\ Exhausted(run)
    /\ run' = NoRun
    /\ stdout' = <<>>
    /\ calls' = [calls EXCEPT !.exhausted =
                     IF run.pos = Len(run.items) THEN @ + 1 ELSE @]
    /\ Advance
    /\ UNCHANGED <<exc, env, envLog, ns>>

Raise ==
    /\ pc \notin {"done", "failed"}
    /\ exc' = pc
    /\ pc' = Unwind(pc)
    /\ UNCHANGED <<env, envLog, ns, run, stdout, calls>>

Next ==
    \/ SetOpenAIKey \/ SetTracing \/ SetLangSmithKey \/ SelectLLM
    \/ CreateLoader \/ Load \/ CreateSplitter \/ Split \/ Index \/ AsRetriever
    \/ SystemPrompt \/ Prompt \/ CreateQAChain \/ CreateChain
    \/ CallStream \/ PrintIter \/ KeyFilterIter \/ Pick \/ PickIter
    \/ ContextualizeQSystemPrompt \/ ContextualizeQPrompt \/ WithConfig
    \/ CreateHistoryAwareRetriever \/ ConvSystemPrompt \/ QAPrompt
    \/ CreateConvQAChain \/ CreateConvChain
    \/ FirstQuestion \/ FirstAnswer \/ FollowUpQuestion \/ ChatHistory
    \/ CallEvents \/ TagFilterIter \/ NameFilterIter
    \/ LoopExit \/ Raise

Spec == Init /\ [][Next]_vars

Consume ==
    \/ PrintIter \/ KeyFilterIter \/ PickIter \/ TagFilterIter \/ NameFilterIter
    \/ LoopExit

LiveSpec == Spec /\ WF_vars(Consume)

----------------------------------------------------------------------------
(* Observations used by the properties *)

Seen == SubSeq(run.items, 1, run.pos)

RagStreamCells == {"print_loop", "filter_loop"}

RECURSIVE AnswerValues(_)
AnswerValues(chunks) ==
    IF chunks = <<>> THEN <<>>
    ELSE (IF "answer" \in DOMAIN Head(chunks) THEN <<Head(chunks).answer>> ELSE <<>>)
         \o AnswerValues(Tail(chunks))

NonEmpty(frags) == SelectSeq(frags, LAMBDA f : f # <<>>)

Bars(frags) == [i \in 1..Len(frags) |-> frags[i] \o <<"|">>]

Contents(writes) == [i \in 1..Len(writes) |-> SubSeq(writes[i], 1, Len(writes[i]) - 1)]

HasEmptyAndText(frags) ==
    /\ \E i \in 1..Len(frags) : frags[i] = <<>>
    /\ \E i \in 1..Len(frags) : frags[i] # <<>>

----------------------------------------------------------------------------
(* C1: every run of rag_chain.stream delivers one chunk with only the key
   input, then one with only the key context, then one or more with only the
   key answer; nothing else, and no input or context chunk after an answer. *)
C1_StreamShape ==
    run.cell \in RagStreamCells =>
        /\ \A i \in 1..run.pos :
              DOMAIN run.items[i] =
                  (IF i = 1 THEN {"input"} ELSE IF i = 2 THEN {"context"} ELSE {"answer"})
        /\ run.pos = Len(run.items) => run.pos >= 3

C1_Witness ==
    /\ run.cell = "print_loop"
    /\ run.pos = Len(run.items)
    /\ run.pos >= 4
    /\ Len(stdout) = run.pos

(* C2: the answer fragments received so far concatenate to a prefix of the
   complete answer, and to the complete answer once the stream has ended. *)
C2_AnswerGrows ==
    run.cell \in RagStreamCells =>
        LET got == Concat(AnswerValues(Seen)) IN
        /\ IsPrefix(got, Concat(run.answer))
        /\ run.pos = Len(run.items) => got = Concat(run.answer)

C2_Witness ==
    /\ run.cell = "print_loop"
    /\ run.pos = Len(run.items)
    /\ HasEmptyAndText(run.answer)
    /\ Len(AnswerValues(Seen)) = Len(run.answer)

(* C3 as stated: the key-filter loop prints every answer fragment of the
   stream, in stream order, each followed by a bar. *)
C3_Original ==
    run.cell = "filter_loop" => stdout = Bars(AnswerValues(Seen))

(* C3 amended: the key-filter loop prints exactly the non-empty answer
   fragments of the stream, in stream order, each followed by a bar; it prints
   nothing for input and context chunks nor for an empty answer fragment. *)
C3_Amended ==
    run.cell = "filter_loop" => stdout = Bars(NonEmpty(AnswerValues(Seen)))

C3_Witness ==
    /\ run.cell = "filter_loop"
    /\ run.pos = Len(run.items)
    /\ HasEmptyAndText(run.answer)
    /\ stdout # <<>>

(* C4: the items chain.stream yields are exactly the values of the answer key
   of the chunks rag_chain.stream yields, in order and multiplicity; nothing
   comes from an input or context chunk. *)
C4_PickSelectsAnswer ==
    run.cell = "pick_loop" =>
        run.items =
            AnswerValues(Stream(ns["rag_chain"], plain_input, run.docs, run.answer))

C4_Witness ==
    /\ run.cell = "pick_loop"
    /\ run.pos = Len(run.items)
    /\ HasEmptyAndText(run.answer)
    /\ Len(stdout) = Len(run.answer)

----------------------------------------------------------------------------
(* Observations of an astream_events run *)

ContextualizeTag == "contextualize_q_llm"

IsModelStream(e) == e.event = "on_chat_model_stream"

IsRephraseToken(e) == IsModelStream(e) /\ Contains(e.tags, ContextualizeTag)

IsAnswerToken(e) == IsModelStream(e) /\ e.run_id = "run_a"

IsRetrieverStart(e) == e.event = "on_retriever_start" /\ e.name = "Retriever"

IsRetrieverEnd(e) == e.event = "on_retriever_end" /\ e.name = "Retriever"

IsOutputChunk(e) == e.event = "on_chain_stream" /\ e.run_id = "run_root"

Reformulated == Concat(run.rephrase)

StringKeys == {"input", "answer"}

Carries(chunk, text) == \E k \in DOMAIN chunk \cap StringKeys : chunk[k] = text

(* C5: in the loop filtering on the tag, an iteration prints only when its
   event is an on_chat_model_stream event tagged contextualize_q_llm, and that
   event never comes from the answering model. *)
C5_OnlyTaggedTokens ==
    [][(run.cell = "tag_loop" /\ run'.cell = "tag_loop" /\ stdout' # stdout) =>
           /\ Current.event = "on_chat_model_stream"
           /\ Contains(Current.tags, ContextualizeTag)
           /\ ~IsAnswerToken(Current)]_vars

C5_Witness ==
    /\ run.cell = "tag_loop"
    /\ run.pos = Len(run.items)
    /\ \E i \in 1..run.pos :
         IsAnswerToken(run.items[i]) /\ run.items[i].data.chunk.content # <<>>
    /\ stdout # <<>>

(* C6: with a non-empty chat history, once the retriever's start event has
   been delivered, the token contents the tag loop has printed concatenate to
   the query that event carries. *)
C6_TokensRecoverQuery ==
    (run.cell = "tag_loop" /\ conv_input.chat_history # <<>>) =>
        \A i \in 1..run.pos :
            IsRetrieverStart(run.items[i]) =>
                Concat(Contents(stdout)) = run.items[i].data.input.query

C6_Witness ==
    /\ run.cell = "tag_loop"
    /\ conv_input.chat_history # <<>>
    /\ run.pos = Len(run.items)
    /\ Len(stdout) = 2
    /\ Len(Concat(Contents(stdout))) = 2

(* C7 as stated: no chunk of the conversational chain's output carries the
   reformulated question as a value, and the input value is the follow-up
   question. *)
C7_Original ==
    run.cell \in EventLoops =>
        \A i \in 1..run.pos :
            IsOutputChunk(run.items[i]) =>
                LET chunk == run.items[i].data.chunk IN
                /\ ~Carries(chunk, Reformulated)
                /\ "input" \in DOMAIN chunk => chunk.input = follow_up_question

(* C7 amended: the output of the conversational chain has no key for the
   reformulated question: every chunk carries only keys among input,
   chat_history, context and answer, the input value is the follow-up question
   unchanged, the context value is the retrieved documents and an answer value
   is a fragment of the answering model; so the reformulated text shows up
   only where it equals the follow-up question or an answer fragment. *)
C7_Amended ==
    run.cell \in EventLoops =>
        \A i \in 1..run.pos :
            IsOutputChunk(run.items[i]) =>
                LET chunk == run.items[i].data.chunk IN
                /\ DOMAIN chunk \subseteq {"input", "chat_history", "context", "answer"}
                /\ "input" \in DOMAIN chunk => chunk.input = follow_up_question
                /\ "chat_history" \in DOMAIN chunk => chunk.chat_history = chat_history
                /\ "context" \in DOMAIN chunk => chunk.context = run.docs
                /\ "answer" \in DOMAIN chunk =>
                       \E j \in 1..Len(run.answer) : chunk.answer = run.answer[j]
                /\ Carries(chunk, Reformulated) =>
                       \/ Reformulated = follow_up_question
                       \/ \E j \in 1..Len(run.answer) : Reformulated = run.answer[j]

C7_Witness ==
    /\ run.cell = "tag_loop"
    /\ run.pos = Len(run.items)
    /\ Reformulated # follow_up_question
    /\ Reformulated # <<>>
    /\ \A j \in 1..Len(run.answer) : Reformulated # run.answer[j]

(* C8: once a step has raised, the flow is at the failure and stays there:
   no later step runs, the failing loop delivers nothing more, and what was
   printed, bound or set before the failure is left as it was. *)
C8_FailurePropagates ==
    [][exc' # "none" =>
           /\ pc' = "failed"
           /\ stdout' = stdout
           /\ run' = run
           /\ ns' = ns
           /\ env' = env
           /\ envLog' = envLog]_vars

C8_Witness ==
    /\ exc = "filter_loop"
    /\ pc = "failed"
    /\ stdout # <<>>
    /\ run.pos < Len(run.items)

Touched == {envLog[i].var : i \in 1..Len(envLog)}

(* C9 as stated: the notebook touches exactly two environment variables and
   only reads them. *)
C9_Original ==
    /\ \A i \in 1..Len(envLog) : envLog[i].op = "read"
    /\ pc = "done" => Cardinality(Touched) = 2

(* C9 amended: the notebook's only interaction with the process environment
   is to assign three variables, OPENAI_API_KEY, LANGCHAIN_TRACING_V2 and
   LANGCHAIN_API_KEY; it reads none, and every other variable keeps its
   value. *)
C9_Amended ==
    /\ \A i \in 1..Len(envLog) : envLog[i].op = "write"
    /\ Touched \subseteq {"OPENAI_API_KEY", "LANGCHAIN_TRACING_V2", "LANGCHAIN_API_KEY"}
    /\ pc = "done" => Cardinality(Touched) = 3
    /\ \A v \in EnvVars \ Touched : env[v] = InitEnv[v]

C9_Witness ==
    /\ pc = "done"
    /\ Len(envLog) = 3
    /\ env["LANGCHAIN_TRACING_V2"] = "true"

(* C10: in a run of the conversational chain with a non-empty chat history,
   every on_chat_model_stream event tagged contextualize_q_llm comes before the
   retriever's start event, and the retriever's end event comes before every
   on_chat_model_stream event of the answering model. *)
C10_RephraseRetrieveAnswer ==
    (run.cell \in EventLoops /\ conv_input.chat_history # <<>>) =>
        /\ \A i, j \in 1..run.pos :
              (IsRephraseToken(run.items[i]) /\ IsRetrieverStart(run.items[j])) => i < j
        /\ \A j \in 1..run.pos :
              (IsModelStream(run.items[j]) /\ ~IsRephraseToken(run.items[j])) =>
                  \E i \in 1..(j - 1) : IsRetrieverEnd(run.items[i])

C10_Witness ==
    /\ run.cell = "name_loop"
    /\ run.pos = Len(run.items)
    /\ \E i \in 1..run.pos : IsRephraseToken(run.items[i])
    /\ \E i \in 1..run.pos : IsModelStream(run.items[i]) /\ ~IsRephraseToken(run.items[i])
    /\ Len(stdout) = 4

----------------------------------------------------------------------------
(* Observations of the name-filter loop *)

Named(events, name) == SelectSeq(events, LAMBDA e : e.name = name)

RECURSIVE EventPrints(_)
EventPrints(events) ==
    IF events = <<>> THEN <<>>
    ELSE <<ReprEvent(Head(events)) \o <<"\n">>, <<"\n">>>> \o EventPrints(Tail(events))

(* C11: the loop filtering on the name Retriever prints the retriever's
   events and nothing else: first one on_retriever_start event, later one
   on_retriever_end event with the same run identifier and the same input
   query, never the end before the start; only the end event carries the
   retrieved documents, and a run that completes has printed both. *)
C11_RetrieverEventsOnly ==
    run.cell = "name_loop" =>
        LET r == Named(Seen, "Retriever") IN
        /\ stdout = EventPrints(r)
        /\ Len(r) <= 2
        /\ Len(r) >= 1 =>
               /\ r[1].event = "on_retriever_start"
               /\ "output" \notin DOMAIN r[1].data
        /\ Len(r) = 2 =>
               /\ r[2].event = "on_retriever_end"
               /\ r[2].run_id = r[1].run_id
               /\ r[2].data.input.query = r[1].data.input.query
               /\ "output" \in DOMAIN r[2].data
               /\ r[2].data.output.documents = run.docs
        /\ run.pos = Len(run.items) => Len(r) = 2

C11_Witness ==
    /\ run.cell = "name_loop"
    /\ run.pos = Len(run.items)
    /\ Len(stdout) = 4
    /\ stdout[1] # stdout[3]
    /\ Len(run.rephrase) = 2

----------------------------------------------------------------------------
(* The two answer-only loops over one chunk stream *)

RECURSIVE FilterPrints(_)
FilterPrints(chunks) ==
    IF chunks = <<>> THEN <<>>
    ELSE KeyFilterBody(Head(chunks)) \o FilterPrints(Tail(chunks))

Underlying == Stream(ns["rag_chain"], plain_input, run.docs, run.answer)

BareBar == <<"|">>

(* C12 as stated: over the same chunk stream the pick loop and the key-filter
   loop print the same sequence of bar-terminated fragments, empty answer
   fragments included. *)
C12_Original ==
    (run.cell = "pick_loop" /\ run.pos = Len(run.items)) =>
        stdout = FilterPrints(Underlying)

(* C12 amended: over the same chunk stream the pick loop prints what the
   key-filter loop prints plus one bare bar for every empty answer fragment,
   which the key-filter loop skips; the two print the same sequence exactly
   when the stream has no empty answer fragment. *)
C12_Amended ==
    (run.cell = "pick_loop" /\ run.pos = Len(run.items)) =>
        /\ SelectSeq(stdout, LAMBDA w : w # BareBar) = FilterPrints(Underlying)
        /\ Len(stdout) - Len(FilterPrints(Underlying))
               = Len(SelectSeq(run.answer, LAMBDA f : f = <<>>))
        /\ (stdout = FilterPrints(Underlying))
               <=> (\A i \in 1..Len(run.answer) : run.answer[i] # <<>>)

C12_Witness ==
    /\ run.cell = "pick_loop"
    /\ run.pos = Len(run.items)
    /\ Len(run.answer) = 2
    /\ run.answer[1] = <<>>
    /\ run.answer[2] # <<>>
    /\ stdout = <<BareBar, run.answer[2] \o BareBar>>

----------------------------------------------------------------------------
(* Streaming calls over the whole notebook *)

Open == calls.started - calls.exhausted

OneOpenCall ==
    /\ Open \in {0, 1}
    /\ Open = 1 <=> run.cell # "none"
    /\ run.cell # "none" =>
           run.handled = [i \in 1..run.pos |-> [by |-> run.cell, item |-> run.items[i]]]

LoopTarget(cell) == IF cell \in StreamLoops THEN "chunk" ELSE "event"

BodyNames(cell) ==
    IF cell = "filter_loop" THEN {"answer_chunk"}
    ELSE IF cell = "tag_loop" THEN {"ai_message_chunk"}
    ELSE {}

UsedByLoop(cell) == {LoopTarget(cell)} \cup BodyNames(cell)

SharedWithAnotherLoop(cell) == UNION {UsedByLoop(c) : c \in Loops \ {cell}}

Changed == {n \in Names : ns'[n] # ns[n]}

IsIteration == run.cell # "none" /\ run'.cell = run.cell /\ run'.pos # run.pos

BodyWrites == Changed \ {LoopTarget(run.cell)}

StartsWhenIdle ==
    (run.cell = "none" /\ run'.cell # "none") => calls.started = calls.exhausted

LeavesChainAlone ==
    IsIteration =>
        /\ run'.pos = run.pos + 1
        /\ run'.items = run.items
        /\ Changed \cap (Names \ LoopNames) = {}
        /\ env' = env
        /\ envLog' = envLog

BodyWritesArePrivate ==
    /\ IsIteration =>
           /\ ns'[LoopTarget(run.cell)] =
                  IF run.cell = "pick_loop" THEN Str(Current) ELSE Dict(Current)
           /\ BodyWrites \subseteq BodyNames(run.cell)
           /\ BodyWrites \cap SharedWithAnotherLoop(run.cell) = {}
    /\ "answer_chunk" \in Changed => (IsIteration /\ pc = "filter_loop")
    /\ "ai_message_chunk" \in Changed => (IsIteration /\ pc = "tag_loop")

LoopStep == StartsWhenIdle /\ LeavesChainAlone /\ BodyWritesArePrivate

(* C13: at most one streaming call is being consumed at any time: a call is
   started only when every earlier call was consumed to exhaustion, and each
   chunk or event is handled once, by the loop that made the call, in the
   order it was produced.  An iteration changes neither the chain objects nor
   the environment nor the stream it reads.  The for statement rebinds the
   loop variable to the item being handled; what the body itself assigns,
   answer_chunk in the key-filter loop and ai_message_chunk in the tag-filter
   loop, is a name no other loop reads or writes. *)
C13_OneStreamAtATime == []OneOpenCall /\ [][LoopStep]_vars

C13_Witness ==
    /\ run.cell = "name_loop"
    /\ calls.started = 5
    /\ calls.exhausted = 4
    /\ run.pos = Len(run.items)
    /\ Len(run.handled) = run.pos
    /\ ns["event"] = Dict(run.items[run.pos])
    /\ ns["chunk"].kind = "str"
    /\ ns["answer_chunk"].kind = "str"
    /\ ns["ai_message_chunk"].kind = "AIMessageChunk"

----------------------------------------------------------------------------
(* Termination of the streaming loops *)

RunInItsLoop ==
    run.cell # "none" => (pc = run.cell \/ (pc = "failed" /\ exc = run.cell))

LoopLeftForGood ==
    /\ (pc' # pc /\ pc' # "failed") => StepIndex(pc') > StepIndex(pc)
    /\ (run.cell # "none" /\ run'.cell # run.cell) =>
           /\ run.pos = Len(run.items)
           /\ run'.cell = "none"
           /\ pc' = NextStep(run.cell)

(* C14: a streaming loop whose run does not fail terminates: the stream is
   exhausted after finitely many chunks or events, the loop then exits with
   every item delivered, and the flow never returns to that loop, so nothing
   of that run is delivered afterwards. *)
C14_LoopsTerminate ==
    /\ (run.cell # "none" /\ exc = "none") ~> (run.cell = "none" \/ exc # "none")
    /\ []RunInItsLoop
    /\ [][LoopLeftForGood]_vars

C14_Witness ==
    /\ pc = "done"
    /\ exc = "none"
    /\ calls.exhausted = 5
    /\ run.cell = "none"

====
